---- MODULE Spec2Model ----
(***************************************************************************)
(* The crewai-core execution engine: the entity constructors, the Crew     *)
(* container with its validation pass, the two entry points                *)
(* (Crew::execute, Crew::execute_async) and the three strategies           *)
(* (execute_tasks_sequentially, execute_tasks_rayon, execute_tasks_tokio). *)
(*                                                                         *)
(* Strings are modelled by themselves; a formatted message is the record   *)
(* of its format string and its arguments, so two messages are equal       *)
(* exactly when the formatted strings are.                                 *)
(***************************************************************************)
EXTENDS Naturals, Sequences, FiniteSets

VARIABLES
    crew,               \* the caller's Crew: name, process, agents, tasks
    last,               \* the operation called last, with its arguments
    ret,                \* what that operation returned ("None": still running)
    pre,                \* the Crew as it was when that operation was called
    invoked,            \* per task index: the calls of Task::execute made by that
                        \* operation, and what the last of them did
    pc,                 \* where the running entry point stands
    i,                  \* execute_tasks_sequentially: index of the loop's task
    tasks_with_status,  \* execute_tasks_rayon: the (Task clone, error) pairs
    wpc,                \* execute_tasks_rayon: each closure's position
    task_statuses,      \* execute_tasks_tokio: the vec of statuses
    apc,                \* execute_tasks_tokio: each spawned activity's position
    results,            \* execute_tasks_tokio: what each activity resolved to
    spawned,            \* execute_tasks_tokio: activities spawned so far
    mutex               \* the strategy's mutexes: who holds each, and poisoning

vars == <<crew, last, ret, pre, invoked, pc, i, tasks_with_status, wpc,
          task_statuses, apc, results, spawned, mutex>>

locals == <<i, tasks_with_status, wpc, task_statuses, apc, results, spawned, mutex>>

----------------------------------------------------------------------------
(* Bounds of the model. *)

MaxAgents == 1
MaxTasks == 3
BuildMaxAgents == 2
BuildMaxTasks == 2

----------------------------------------------------------------------------
(* Values. *)

None == [some |-> FALSE]
Some(x) == [some |-> TRUE, val |-> x]

Unit == [unit |-> TRUE]
Ok(v) == [tag |-> "Ok", val |-> v]
Err(kind, msg) == [tag |-> "Err", kind |-> kind, msg |-> msg]
Unwinding == [tag |-> "Panic"]
NoRet == [tag |-> "None"]

Pending == [tag |-> "Pending"]
Running == [tag |-> "Running"]
Completed == [tag |-> "Completed"]
Failed(msg) == [tag |-> "Failed", msg |-> msg]

Processes == {"sequential", "parallel", "async"}

(* What the opaque Task::execute can do when called: return Ok(()), return *)
(* Err(e) (e shown through its Display text), or panic.                    *)
Reasons == {"timeout"}
Outcomes == {[kind |-> "ok"], [kind |-> "panic"]} \cup {[kind |-> "err", e |-> r] : r \in Reasons}

----------------------------------------------------------------------------
(* Constructors. *)

AgentNew(name, role, expertise) ==
    IF name = "" THEN Err("MissingField", [fmt |-> "Agent name cannot be empty"])
    ELSE IF role = "" THEN Err("MissingField", [fmt |-> "Agent role cannot be empty"])
    ELSE Ok([name |-> name, role |-> role, expertise |-> expertise])

TaskNewNoOutputCheck(id, description, expected_output, agent_name) ==
    IF description = "" THEN Err("MissingField", [fmt |-> "Task description cannot be empty"])
    ELSE Ok([id |-> id, description |-> description, expected_output |-> expected_output,
             agent_name |-> agent_name, status |-> Pending])

TaskNew(id, description, expected_output, agent_name) ==
    IF description = "" THEN Err("MissingField", [fmt |-> "Task description cannot be empty"])
    ELSE IF expected_output = ""
         THEN Err("MissingField", [fmt |-> "Task expected output cannot be empty"])
    ELSE Ok([id |-> id, description |-> description, expected_output |-> expected_output,
             agent_name |-> agent_name, status |-> Pending])

CrewNew(name, process) ==
    IF name = "" THEN Err("MissingField", [fmt |-> "Crew name cannot be empty"])
    ELSE IF process \notin {"sequential", "parallel", "async"}
         THEN Err("InvalidConfig",
                  [fmt |-> "Invalid process type: {}. Must be 'sequential', 'parallel', or 'async'",
                   process |-> process])
    ELSE Ok([name |-> name, agents |-> <<>>, tasks |-> <<>>, process |-> process])

----------------------------------------------------------------------------
(* Crew::validate. *)

HasAgent(agents, agent_name) ==
    \E a \in 1..Len(agents) : agents[a].name = agent_name

RECURSIVE FirstDangling(_, _, _)
(* The `for task in &self.tasks` loop: the index of the first task whose   *)
(* agent_name is set and names no agent, 0 when the loop runs to its end.  *)
FirstDangling(tasks, agents, k) ==
    IF k > Len(tasks) THEN 0
    ELSE IF tasks[k].agent_name.some /\ ~HasAgent(agents, tasks[k].agent_name.val) THEN k
    ELSE FirstDangling(tasks, agents, k + 1)

(* The reference loop reporting the last offending task of the list. *)
CrewValidateLastDangling(c) ==
    IF Len(c.agents) = 0
    THEN Err("InvalidConfig", [fmt |-> "Crew must have at least one agent"])
    ELSE IF Len(c.tasks) = 0
    THEN Err("InvalidConfig", [fmt |-> "Crew must have at least one task"])
    ELSE IF FirstDangling(c.tasks, c.agents, 1) # 0
    THEN Err("InvalidConfig",
             [fmt |-> "Task references agent '{}' which doesn't exist in the crew",
              agent |-> c.tasks[CHOOSE k \in 1..Len(c.tasks) :
                                   /\ c.tasks[k].agent_name.some
                                   /\ ~HasAgent(c.agents, c.tasks[k].agent_name.val)
                                   /\ FirstDangling(c.tasks, c.agents, k + 1) = 0].agent_name.val])
    ELSE Ok(Unit)

CrewValidateNoReferenceCheck(c) ==
    IF Len(c.agents) = 0
    THEN Err("InvalidConfig", [fmt |-> "Crew must have at least one agent"])
    ELSE IF Len(c.tasks) = 0
    THEN Err("InvalidConfig", [fmt |-> "Crew must have at least one task"])
    ELSE Ok(Unit)

CrewValidate(c) ==
    IF Len(c.agents) = 0
    THEN Err("InvalidConfig", [fmt |-> "Crew must have at least one agent"])
    ELSE IF Len(c.tasks) = 0
    THEN Err("InvalidConfig", [fmt |-> "Crew must have at least one task"])
    ELSE IF FirstDangling(c.tasks, c.agents, 1) # 0
    THEN Err("InvalidConfig",
             [fmt |-> "Task references agent '{}' which doesn't exist in the crew",
              agent |-> c.tasks[FirstDangling(c.tasks, c.agents, 1)].agent_name.val])
    ELSE Ok(Unit)

----------------------------------------------------------------------------
(* Messages built with format!. *)

TaskFailedMsg(id, e) == [fmt |-> "Task {} failed: {}", id |-> id, e |-> e]
SeqErrorMsg(id, e) == [fmt |-> "Failed to execute task {}: {}", id |-> id, e |-> e]
RayonErrorMsg(errors) == [fmt |-> "Multiple task execution failures: {}", joined |-> errors]
TokioErrorMsg(errors) == [fmt |-> "Multiple async task failures: {}", joined |-> errors]
(* The Display text of tokio's JoinError names the runtime's own task, not *)
(* the Task of the crew.                                                   *)
TaskPanickedMsg == [fmt |-> "Task panicked: {}", e |-> "JoinError::Panic"]

----------------------------------------------------------------------------
(* The caller builds a Crew. *)

Init ==
    /\ \E process \in Processes :
        /\ crew = CrewNew("crew", process).val
        /\ last = [op |-> "Crew::new", name |-> "crew", process |-> process]
        /\ ret = CrewNew("crew", process)
    /\ pre = crew
    /\ invoked = <<>>
    /\ pc = "idle"
    /\ i = 0
    /\ tasks_with_status = <<>>
    /\ wpc = <<>>
    /\ task_statuses = <<>>
    /\ apc = <<>>
    /\ results = <<>>
    /\ spawned = 0
    /\ mutex = <<>>

(* A call of Crew::new; the caller keeps the new Crew when there is one. *)
NewCrew(name, process) ==
    /\ pc = "idle"
    /\ last' = [op |-> "Crew::new", name |-> name, process |-> process]
    /\ ret' = CrewNew(name, process)
    /\ crew' = IF CrewNew(name, process).tag = "Ok" THEN CrewNew(name, process).val ELSE crew
    /\ pre' = crew
    /\ invoked' = <<>>
    /\ UNCHANGED <<pc, locals>>

NewAgent(name, role, expertise) ==
    /\ pc = "idle"
    /\ last' = [op |-> "Agent::new", name |-> name, role |-> role, expertise |-> expertise]
    /\ ret' = AgentNew(name, role, expertise)
    /\ pre' = crew
    /\ invoked' = <<>>
    /\ UNCHANGED <<crew, pc, locals>>

NewTask(id, description, expected_output, agent_name) ==
    /\ pc = "idle"
    /\ last' = [op |-> "Task::new", id |-> id, description |-> description,
                expected_output |-> expected_output, agent_name |-> agent_name]
    /\ ret' = TaskNew(id, description, expected_output, agent_name)
    /\ pre' = crew
    /\ invoked' = <<>>
    /\ UNCHANGED <<crew, pc, locals>>

(* add_agent with the Agent the caller has just constructed. *)
AddAgent(limit) ==
    /\ pc = "idle"
    /\ last.op = "Agent::new"
    /\ ret.tag = "Ok"
    /\ Len(crew.agents) < limit
    /\ crew' = [crew EXCEPT !.agents = Append(@, ret.val)]
    /\ last' = [op |-> "add_agent"]
    /\ ret' = Ok(Unit)
    /\ pre' = crew
    /\ invoked' = <<>>
    /\ UNCHANGED <<pc, locals>>

(* add_task with the Task the caller has just constructed. *)
AddTask(limit) ==
    /\ pc = "idle"
    /\ last.op = "Task::new"
    /\ ret.tag = "Ok"
    /\ Len(crew.tasks) < limit
    /\ crew' = [crew EXCEPT !.tasks = Append(@, ret.val)]
    /\ last' = [op |-> "add_task"]
    /\ ret' = Ok(Unit)
    /\ pre' = crew
    /\ invoked' = <<>>
    /\ UNCHANGED <<pc, locals>>

RECURSIVE DropDangling(_, _)
DropDangling(tasks, agents) ==
    IF tasks = <<>> THEN <<>>
    ELSE IF Head(tasks).agent_name.some /\ ~HasAgent(agents, Head(tasks).agent_name.val)
         THEN DropDangling(Tail(tasks), agents)
         ELSE <<Head(tasks)>> \o DropDangling(Tail(tasks), agents)

ValidateEffectRepairing(c) == [c EXCEPT !.tasks = DropDangling(c.tasks, c.agents)]

(* validate takes &self: the Crew after the call is the Crew before it. *)
ValidateEffect(c) == c

Validate ==
    /\ pc = "idle"
    /\ last' = [op |-> "validate"]
    /\ ret' = CrewValidate(crew)
    /\ crew' = ValidateEffect(crew)
    /\ pre' = crew
    /\ invoked' = <<>>
    /\ UNCHANGED <<pc, locals>>

----------------------------------------------------------------------------
(* config.rs.  A YAML document is the mapping serde sees: each of the four *)
(* keys of Crew is there (Some) or missing (None).  The derived            *)
(* Deserialize wants all four, calls no constructor, and gives every task  *)
(* the default status (#[serde(skip)]).                                    *)

CrewFromYaml(doc) ==
    IF ~doc.name.some THEN Err("YamlError", [fmt |-> "missing field {}", field |-> "name"])
    ELSE IF ~doc.agents.some
    THEN Err("YamlError", [fmt |-> "missing field {}", field |-> "agents"])
    ELSE IF ~doc.tasks.some
    THEN Err("YamlError", [fmt |-> "missing field {}", field |-> "tasks"])
    ELSE IF ~doc.process.some
    THEN Err("YamlError", [fmt |-> "missing field {}", field |-> "process"])
    ELSE Ok([name |-> doc.name.val,
             agents |-> doc.agents.val,
             tasks |-> [k \in 1..Len(doc.tasks.val) |->
                          [id |-> doc.tasks.val[k].id,
                           description |-> doc.tasks.val[k].description,
                           expected_output |-> doc.tasks.val[k].expected_output,
                           agent_name |-> doc.tasks.val[k].agent_name,
                           status |-> Pending]],
             process |-> doc.process.val])

(* load_crew_from_yaml: the file is missing (None) or holds a document. *)
LoadCrewFromYaml(file) ==
    IF ~file.some THEN Err("IOError", [fmt |-> "No such file or directory"])
    ELSE IF CrewFromYaml(file.val).tag = "Err" THEN CrewFromYaml(file.val)
    ELSE IF CrewValidate(CrewFromYaml(file.val).val).tag = "Err"
    THEN CrewValidate(CrewFromYaml(file.val).val)
    ELSE CrewFromYaml(file.val)

ValidateYamlString(doc) ==
    IF CrewFromYaml(doc).tag = "Err" THEN CrewFromYaml(doc)
    ELSE CrewValidate(CrewFromYaml(doc).val)

(* A call of load_crew_from_yaml; the caller keeps the Crew it returns. *)
Load(file) ==
    /\ pc = "idle"
    /\ last' = [op |-> "load_crew_from_yaml", file |-> file]
    /\ ret' = LoadCrewFromYaml(file)
    /\ crew' = IF LoadCrewFromYaml(file).tag = "Ok" THEN LoadCrewFromYaml(file).val ELSE crew
    /\ pre' = crew
    /\ invoked' = <<>>
    /\ UNCHANGED <<pc, locals>>

CheckYaml(doc) ==
    /\ pc = "idle"
    /\ last' = [op |-> "validate_yaml_string", file |-> Some(doc)]
    /\ ret' = ValidateYamlString(doc)
    /\ pre' = crew
    /\ invoked' = <<>>
    /\ UNCHANGED <<crew, pc, locals>>

----------------------------------------------------------------------------
(* The entry points.  An entry point that returns at once is one step; one *)
(* that starts a strategy leaves ret at "None" until the strategy returns. *)

NotCalled == [calls |-> 0, outcome |-> [kind |-> "none"]]

ReturnNow(r) ==
    /\ ret' = r
    /\ pc' = "idle"
    /\ UNCHANGED <<crew, locals>>

Free == [holder |-> 0, poisoned |-> FALSE]

TaskIndexes == 1..Len(crew.tasks)

(* execute_sequential up to the first iteration of the strategy's loop. *)
ExecuteSequentialNoValidate ==
    /\ pc' = "seq_loop"
    /\ i' = 1
    /\ ret' = NoRet
    /\ UNCHANGED <<crew, tasks_with_status, wpc, task_statuses, apc, results, spawned, mutex>>

ExecuteSequential ==
    IF CrewValidate(crew).tag = "Err"
    THEN ReturnNow(CrewValidate(crew))
    ELSE /\ pc' = "seq_loop"
         /\ i' = 1
         /\ ret' = NoRet
         /\ UNCHANGED <<crew, tasks_with_status, wpc, task_statuses, apc, results, spawned, mutex>>

(* execute_parallel_rayon up to the start of par_iter().for_each: every    *)
(* Task is cloned into its own Arc<Mutex<(Task, Option<String>)>>.         *)
ExecuteParallelRayon ==
    IF CrewValidate(crew).tag = "Err"
    THEN ReturnNow(CrewValidate(crew))
    ELSE /\ pc' = "rayon"
         /\ tasks_with_status' = [k \in TaskIndexes |-> [task |-> crew.tasks[k], error |-> None]]
         /\ wpc' = [k \in TaskIndexes |-> "queued"]
         /\ mutex' = [k \in TaskIndexes |-> Free]
         /\ ret' = NoRet
         /\ UNCHANGED <<crew, i, task_statuses, apc, results, spawned>>

(* execute_concurrent_tokio up to the first task::spawn: the tasks are     *)
(* cloned into an Arc, the statuses are a fresh vec of Pending behind one  *)
(* Mutex.                                                                  *)
ExecuteConcurrentTokio ==
    IF CrewValidate(crew).tag = "Err"
    THEN ReturnNow(CrewValidate(crew))
    ELSE /\ pc' = "tokio"
         /\ task_statuses' = [k \in TaskIndexes |-> Pending]
         /\ apc' = [k \in TaskIndexes |-> "unspawned"]
         /\ results' = [k \in TaskIndexes |-> NoRet]
         /\ spawned' = 0
         /\ mutex' = <<Free>>
         /\ ret' = NoRet
         /\ UNCHANGED <<crew, i, tasks_with_status, wpc>>

ExecuteDispatchAsyncRuns ==
    CASE crew.process = "sequential" -> ExecuteSequential
      [] crew.process = "parallel" -> ExecuteParallelRayon
      [] crew.process = "async" -> ExecuteConcurrentTokio
      [] OTHER -> ReturnNow(Err("InvalidConfig",
                      [fmt |-> "Unknown process type: {}", process |-> crew.process]))

(* The match of Crew::execute. *)
ExecuteDispatch ==
    CASE crew.process = "sequential" -> ExecuteSequential
      [] crew.process = "parallel" -> ExecuteParallelRayon
      [] crew.process = "async" ->
            ReturnNow(Err("InvalidConfig",
                [fmt |-> "Cannot execute async process synchronously. Use execute_async() instead."]))
      [] OTHER -> ReturnNow(Err("InvalidConfig",
                      [fmt |-> "Unknown process type: {}", process |-> crew.process]))

(* A match whose fallback arm runs the sequential strategy. *)
ExecuteAsyncDispatchDefaultSequential ==
    CASE crew.process = "sequential" -> ExecuteSequential
      [] crew.process = "parallel" -> ExecuteParallelRayon
      [] crew.process = "async" -> ExecuteConcurrentTokio
      [] OTHER -> ExecuteSequential

(* A match whose "parallel" arm runs the Tokio strategy. *)
ExecuteAsyncDispatchParallelOnTokio ==
    CASE crew.process = "sequential" -> ExecuteSequential
      [] crew.process = "parallel" -> ExecuteConcurrentTokio
      [] crew.process = "async" -> ExecuteConcurrentTokio
      [] OTHER -> ReturnNow(Err("InvalidConfig",
                      [fmt |-> "Unknown process type: {}", process |-> crew.process]))

(* The match of Crew::execute_async. *)
ExecuteAsyncDispatch ==
    CASE crew.process = "sequential" -> ExecuteSequential
      [] crew.process = "parallel" -> ExecuteParallelRayon
      [] crew.process = "async" -> ExecuteConcurrentTokio
      [] OTHER -> ReturnNow(Err("InvalidConfig",
                      [fmt |-> "Unknown process type: {}", process |-> crew.process]))

Execute ==
    /\ pc = "idle"
    /\ last' = [op |-> "execute"]
    /\ pre' = crew
    /\ invoked' = [k \in TaskIndexes |-> NotCalled]
    /\ ExecuteDispatch

ExecuteAsync ==
    /\ pc = "idle"
    /\ last' = [op |-> "execute_async"]
    /\ pre' = crew
    /\ invoked' = [k \in TaskIndexes |-> NotCalled]
    /\ ExecuteAsyncDispatch

----------------------------------------------------------------------------
(* execute_tasks_sequentially. *)

(* A start that also gives a task without agent_name the first agent. *)
SeqStartAssigningAgent ==
    /\ pc = "seq_loop"
    /\ crew' = [crew EXCEPT !.tasks[i].status = Running,
                            !.tasks[i].agent_name =
                                IF @.some THEN @ ELSE Some(crew.agents[1].name)]
    /\ invoked' = [invoked EXCEPT ![i].calls = @ + 1]
    /\ pc' = "seq_exec"
    /\ UNCHANGED <<last, ret, pre, locals>>

(* set_status(Running), then the call of task.execute(). *)
SeqStart ==
    /\ pc = "seq_loop"
    /\ crew' = [crew EXCEPT !.tasks[i].status = Running]
    /\ invoked' = [invoked EXCEPT ![i].calls = @ + 1]
    /\ pc' = "seq_exec"
    /\ UNCHANGED <<last, ret, pre, locals>>

SeqFinishKeepGoing(o) ==
    /\ pc = "seq_exec"
    /\ crew' = [crew EXCEPT !.tasks[i].status =
                   IF o.kind = "ok" THEN Completed
                   ELSE IF o.kind = "err" THEN Failed(TaskFailedMsg(crew.tasks[i].id, o.e))
                   ELSE @]
    /\ IF i = Len(crew.tasks)
       THEN /\ ret' = IF o.kind = "ok" THEN Ok(Unit)
                      ELSE IF o.kind = "err"
                      THEN Err("ExecutionError", SeqErrorMsg(crew.tasks[i].id, o.e))
                      ELSE Unwinding
            /\ pc' = "idle"
            /\ i' = 0
       ELSE /\ ret' = ret
            /\ pc' = "seq_loop"
            /\ i' = i + 1
    /\ invoked' = [invoked EXCEPT ![i].outcome = o]
    /\ UNCHANGED <<last, pre, tasks_with_status, wpc, task_statuses, apc, results, spawned, mutex>>

(* task.execute() returns (or panics) and the match arm runs. *)
SeqFinish(o) ==
    /\ pc = "seq_exec"
    /\ CASE o.kind = "ok" ->
              /\ crew' = [crew EXCEPT !.tasks[i].status = Completed]
              /\ IF i = Len(crew.tasks)
                 THEN ret' = Ok(Unit) /\ pc' = "idle" /\ i' = 0
                 ELSE ret' = ret /\ pc' = "seq_loop" /\ i' = i + 1
         [] o.kind = "err" ->
              /\ crew' = [crew EXCEPT !.tasks[i].status =
                              Failed(TaskFailedMsg(crew.tasks[i].id, o.e))]
              /\ ret' = Err("ExecutionError", SeqErrorMsg(crew.tasks[i].id, o.e))
              /\ pc' = "idle"
              /\ i' = 0
         [] OTHER ->
              \* the panic unwinds through execute; the status stays Running
              /\ crew' = crew
              /\ ret' = Unwinding
              /\ pc' = "idle"
              /\ i' = 0
    /\ invoked' = [invoked EXCEPT ![i].outcome = o]
    /\ UNCHANGED <<last, pre, tasks_with_status, wpc, task_statuses, apc, results, spawned, mutex>>

----------------------------------------------------------------------------
(* execute_tasks_rayon: closure k of par_iter().for_each works on the k-th *)
(* (Task clone, error) pair behind the k-th Mutex.                         *)

(* lock().unwrap(), set_status(Running) on the clone, then the call of     *)
(* task.execute() with the guard still alive.                              *)
RayonStart(k) ==
    /\ pc = "rayon"
    /\ wpc[k] = "queued"
    /\ mutex[k].holder = 0
    /\ mutex' = [mutex EXCEPT ![k].holder = k]
    /\ tasks_with_status' = [tasks_with_status EXCEPT ![k].task.status = Running]
    /\ invoked' = [invoked EXCEPT ![k].calls = @ + 1]
    /\ wpc' = [wpc EXCEPT ![k] = "executing"]
    /\ UNCHANGED <<crew, last, ret, pre, pc, i, task_statuses, apc, results, spawned>>

(* task.execute() returns (or panics), the match arm runs, the guard is    *)
(* dropped at the end of the closure (a panic poisons the Mutex).          *)
RayonFinish(k, o) ==
    /\ pc = "rayon"
    /\ wpc[k] = "executing"
    /\ CASE o.kind = "ok" ->
              /\ tasks_with_status' = [tasks_with_status EXCEPT ![k].task.status = Completed]
              /\ mutex' = [mutex EXCEPT ![k].holder = 0]
              /\ wpc' = [wpc EXCEPT ![k] = "done"]
         [] o.kind = "err" ->
              /\ tasks_with_status' = [tasks_with_status EXCEPT
                    ![k].task.status = Failed(TaskFailedMsg(tasks_with_status[k].task.id, o.e)),
                    ![k].error = Some(TaskFailedMsg(tasks_with_status[k].task.id, o.e))]
              /\ mutex' = [mutex EXCEPT ![k].holder = 0]
              /\ wpc' = [wpc EXCEPT ![k] = "done"]
         [] OTHER ->
              /\ tasks_with_status' = tasks_with_status
              /\ mutex' = [mutex EXCEPT ![k] = [holder |-> 0, poisoned |-> TRUE]]
              /\ wpc' = [wpc EXCEPT ![k] = "panicked"]
    /\ invoked' = [invoked EXCEPT ![k].outcome = o]
    /\ UNCHANGED <<crew, last, ret, pre, pc, i, task_statuses, apc, results, spawned>>

(* The errors collected from the last pair of the list to the first. *)
CollectErrorsReversed(tws) ==
    LET withError == SelectSeq(tws, LAMBDA p : p.error.some)
    IN  [j \in 1..Len(withError) |-> withError[Len(withError) + 1 - j].error.val]

(* filter_map over tasks_with_status in list order. *)
CollectErrors(tws) ==
    LET withError == SelectSeq(tws, LAMBDA p : p.error.some)
    IN  [j \in 1..Len(withError) |-> withError[j].error.val]

(* A return that does not start the queued closures once one has failed. *)
RayonReturnFailFast ==
    /\ pc = "rayon"
    /\ \A k \in TaskIndexes : wpc[k] # "executing"
    /\ \/ \A k \in TaskIndexes : wpc[k] \in {"done", "panicked"}
       \/ CollectErrors(tasks_with_status) # <<>>
    /\ ret' = IF \E k \in TaskIndexes : wpc[k] = "panicked" THEN Unwinding
              ELSE IF CollectErrors(tasks_with_status) # <<>>
              THEN Err("ExecutionError", RayonErrorMsg(CollectErrors(tasks_with_status)))
              ELSE Ok(Unit)
    /\ pc' = "idle"
    /\ tasks_with_status' = <<>>
    /\ wpc' = <<>>
    /\ mutex' = <<>>
    /\ UNCHANGED <<crew, last, pre, invoked, i, task_statuses, apc, results, spawned>>

(* for_each has joined every closure: a panic of a closure is resumed on   *)
(* the caller, otherwise the errors are collected and the call returns.    *)
(* The clones, and the statuses written to them, are dropped.              *)
RayonReturn ==
    /\ pc = "rayon"
    /\ \A k \in TaskIndexes : wpc[k] \in {"done", "panicked"}
    /\ ret' = IF \E k \in TaskIndexes : wpc[k] = "panicked" THEN Unwinding
              ELSE IF CollectErrors(tasks_with_status) # <<>>
              THEN Err("ExecutionError", RayonErrorMsg(CollectErrors(tasks_with_status)))
              ELSE Ok(Unit)
    /\ pc' = "idle"
    /\ tasks_with_status' = <<>>
    /\ wpc' = <<>>
    /\ mutex' = <<>>
    /\ UNCHANGED <<crew, last, pre, invoked, i, task_statuses, apc, results, spawned>>

----------------------------------------------------------------------------
(* execute_tasks_tokio: activity k is the k-th task::spawn(async move ..). *)

(* The next task::spawn of the map ... collect. *)
TokioSpawn ==
    /\ pc = "tokio"
    /\ spawned < Len(crew.tasks)
    /\ spawned' = spawned + 1
    /\ apc' = [apc EXCEPT ![spawned + 1] = "ready"]
    /\ UNCHANGED <<crew, last, ret, pre, invoked, pc, i, tasks_with_status, wpc, task_statuses,
                   results, mutex>>

(* The first block entered without waiting for the Mutex to be free. *)
TokioLockRunningNoWait(k) ==
    /\ pc = "tokio"
    /\ apc[k] = "ready"
    /\ mutex' = [mutex EXCEPT ![1].holder = k]
    /\ apc' = [apc EXCEPT ![k] = "lock_running"]
    /\ UNCHANGED <<crew, last, ret, pre, invoked, pc, i, tasks_with_status, wpc, task_statuses,
                   results, spawned>>

(* statuses_ref.lock().unwrap() of the first block. *)
TokioLockRunning(k) ==
    /\ pc = "tokio"
    /\ apc[k] = "ready"
    /\ mutex[1].holder = 0
    /\ mutex' = [mutex EXCEPT ![1].holder = k]
    /\ apc' = [apc EXCEPT ![k] = "lock_running"]
    /\ UNCHANGED <<crew, last, ret, pre, invoked, pc, i, tasks_with_status, wpc, task_statuses,
                   results, spawned>>

(* statuses[i] = Running, the guard is dropped, task.execute() is called. *)
TokioSetRunning(k) ==
    /\ pc = "tokio"
    /\ apc[k] = "lock_running"
    /\ task_statuses' = [task_statuses EXCEPT ![k] = Running]
    /\ mutex' = [mutex EXCEPT ![1].holder = 0]
    /\ invoked' = [invoked EXCEPT ![k].calls = @ + 1]
    /\ apc' = [apc EXCEPT ![k] = "executing"]
    /\ UNCHANGED <<crew, last, ret, pre, pc, i, tasks_with_status, wpc, results, spawned>>

(* task.execute() panics: the activity ends there, its JoinHandle resolves *)
(* to Err(JoinError); or it returns and the second block takes the lock.   *)
TokioExecuteReturn(k, o) ==
    /\ pc = "tokio"
    /\ apc[k] = "executing"
    /\ IF o.kind = "panic"
       THEN /\ results' = [results EXCEPT ![k] = [tag |-> "JoinError"]]
            /\ apc' = [apc EXCEPT ![k] = "done"]
            /\ mutex' = mutex
       ELSE /\ mutex[1].holder = 0
            /\ mutex' = [mutex EXCEPT ![1].holder = k]
            /\ results' = [results EXCEPT ![k] =
                   IF o.kind = "ok" THEN Ok(Unit)
                   ELSE [tag |-> "Err", msg |-> TaskFailedMsg(crew.tasks[k].id, o.e)]]
            /\ apc' = [apc EXCEPT ![k] = "lock_final"]
    /\ invoked' = [invoked EXCEPT ![k].outcome = o]
    /\ UNCHANGED <<crew, last, ret, pre, pc, i, tasks_with_status, wpc, task_statuses, spawned>>

(* A second block whose guard outlives the activity. *)
TokioSetFinalKeepsGuard(k) ==
    /\ pc = "tokio"
    /\ apc[k] = "lock_final"
    /\ task_statuses' = [task_statuses EXCEPT ![k] =
           IF results[k].tag = "Ok" THEN Completed ELSE Failed(results[k].msg)]
    /\ apc' = [apc EXCEPT ![k] = "done"]
    /\ UNCHANGED <<crew, last, ret, pre, invoked, pc, i, tasks_with_status, wpc, results, spawned,
                   mutex>>

(* The match of the second block, then the guard is dropped and the        *)
(* activity resolves to result.map_err(..).                                *)
TokioSetFinal(k) ==
    /\ pc = "tokio"
    /\ apc[k] = "lock_final"
    /\ task_statuses' = [task_statuses EXCEPT ![k] =
           IF results[k].tag = "Ok" THEN Completed ELSE Failed(results[k].msg)]
    /\ mutex' = [mutex EXCEPT ![1].holder = 0]
    /\ apc' = [apc EXCEPT ![k] = "done"]
    /\ UNCHANGED <<crew, last, ret, pre, invoked, pc, i, tasks_with_status, wpc, results, spawned>>

(* filter_map over the results of join_all, which are in spawn order. *)
JoinErrors(rs) ==
    LET failed == SelectSeq(rs, LAMBDA r : r.tag # "Ok")
    IN  [j \in 1..Len(failed) |->
            IF failed[j].tag = "Err" THEN failed[j].msg ELSE TaskPanickedMsg]

(* An await that resolves over the activities launched so far. *)
TokioJoinLaunchedSoFar ==
    /\ pc = "tokio"
    /\ spawned >= 1
    /\ \A k \in 1..spawned : apc[k] = "done"
    /\ ret' = IF JoinErrors(SubSeq(results, 1, spawned)) # <<>>
              THEN Err("ExecutionError", TokioErrorMsg(JoinErrors(SubSeq(results, 1, spawned))))
              ELSE Ok(Unit)
    /\ pc' = "idle"
    /\ task_statuses' = <<>>
    /\ apc' = <<>>
    /\ results' = <<>>
    /\ spawned' = 0
    /\ mutex' = <<>>
    /\ UNCHANGED <<crew, last, pre, invoked, i, tasks_with_status, wpc>>

(* join_all(handles).await resolves once every activity has; the statuses  *)
(* vec and the task clones are dropped.                                    *)
TokioJoin ==
    /\ pc = "tokio"
    /\ spawned = Len(crew.tasks)
    /\ \A k \in TaskIndexes : apc[k] = "done"
    /\ ret' = IF JoinErrors(results) # <<>>
              THEN Err("ExecutionError", TokioErrorMsg(JoinErrors(results)))
              ELSE Ok(Unit)
    /\ pc' = "idle"
    /\ task_statuses' = <<>>
    /\ apc' = <<>>
    /\ results' = <<>>
    /\ spawned' = 0
    /\ mutex' = <<>>
    /\ UNCHANGED <<crew, last, pre, invoked, i, tasks_with_status, wpc>>

----------------------------------------------------------------------------
(* The specifications. *)

AgentNameInputs == {"", "a"}
RoleInputs == {"", "tester"}
DescriptionInputs == {"", "describe"}
OutputInputs == {"", "output"}
AgentRefInputs == {None, Some("a"), Some("b")}
CrewNameInputs == {"", "crew"}
ProcessInputs == Processes \cup {"invalid"}

Engine ==
    \/ Execute
    \/ ExecuteAsync
    \/ SeqStart
    \/ \E o \in Outcomes : SeqFinish(o)
    \/ \E k \in TaskIndexes : RayonStart(k)
    \/ \E k \in TaskIndexes, o \in Outcomes : RayonFinish(k, o)
    \/ RayonReturn
    \/ TokioSpawn
    \/ \E k \in TaskIndexes : TokioLockRunning(k)
    \/ \E k \in TaskIndexes : TokioSetRunning(k)
    \/ \E k \in TaskIndexes, o \in Outcomes : TokioExecuteReturn(k, o)
    \/ \E k \in TaskIndexes : TokioSetFinal(k)
    \/ TokioJoin

(* The whole interface, with a caller that numbers its tasks 1, 2, ... *)
Next ==
    \/ \E name \in CrewNameInputs, process \in ProcessInputs : NewCrew(name, process)
    \/ \E name \in AgentNameInputs, role \in RoleInputs : NewAgent(name, role, None)
    \/ \E description \in DescriptionInputs, expected_output \in OutputInputs,
          agent_name \in AgentRefInputs :
            NewTask(Len(crew.tasks) + 1, description, expected_output, agent_name)
    \/ AddAgent(MaxAgents)
    \/ AddTask(MaxTasks)
    \/ Validate
    \/ Engine

Spec == Init /\ [][Next]_vars

(* A step of a running strategy: the loop of the caller's thread, a rayon  *)
(* worker, a Tokio activity or the join.  Threads and activities that can  *)
(* take a step are scheduled, and every task operation returns or panics.  *)
RunStep == pc # "idle" /\ Engine

SpecLive == Spec /\ WF_vars(RunStep)

BuildAgentNameInputs == {"", "a", "b"}
BuildIdInputs == {1, 2}
(* "b" is a name an agent of the Crew may have, "c" is one none has. *)
BuildAgentRefInputs == {None, Some("b"), Some("c")}

(* Construction and validation alone, with more agents and free task ids. *)
NextBuild ==
    \/ \E name \in CrewNameInputs, process \in ProcessInputs : NewCrew(name, process)
    \/ \E name \in BuildAgentNameInputs, role \in RoleInputs :
            NewAgent(name, role, None)
    \/ \E id \in BuildIdInputs, description \in DescriptionInputs,
          expected_output \in OutputInputs, agent_name \in BuildAgentRefInputs :
            NewTask(id, description, expected_output, agent_name)
    \/ AddAgent(BuildMaxAgents)
    \/ AddTask(BuildMaxTasks)
    \/ Validate

SpecBuild == Init /\ [][NextBuild]_vars

LoadMaxTasks == 1

YamlAgentLists == {<<>>, <<[name |-> "a", role |-> "tester", expertise |-> None]>>}
(* A task of a document names no agent, or "b", which no agent list has. *)
YamlAgentRefInputs == {None, Some("b")}
YamlTaskLists ==
    UNION {{[k \in 1..n |-> [id |-> k, description |-> "describe", expected_output |-> "output",
                             agent_name |-> refs[k]]] : refs \in [1..n -> YamlAgentRefInputs]}
           : n \in 0..LoadMaxTasks}
YamlDocs ==
    {[name |-> name, agents |-> agents, tasks |-> tasks, process |-> process] :
        name \in {None, Some("crew")},
        agents \in {None} \cup {Some(l) : l \in YamlAgentLists},
        tasks \in {None} \cup {Some(l) : l \in YamlTaskLists},
        process \in {None} \cup {Some(x) : x \in ProcessInputs}}

(* Configuration loading and validation, and the engine on what was loaded. *)
NextLoad ==
    \/ \E file \in {None} \cup {Some(doc) : doc \in YamlDocs} : Load(file)
    \/ \E doc \in YamlDocs : CheckYaml(doc)
    \/ Validate
    \/ Engine

SpecLoad == Init /\ [][NextLoad]_vars

----------------------------------------------------------------------------
(* Vocabulary of the properties. *)

(* A Crew fails validation: no agents, no tasks, or a dangling agent_name. *)
FailsValidation(c) ==
    \/ c.agents = <<>>
    \/ c.tasks = <<>>
    \/ \E t \in 1..Len(c.tasks) :
          /\ c.tasks[t].agent_name # None
          /\ \A a \in 1..Len(c.agents) : c.agents[a].name # c.tasks[t].agent_name.val

AllPending(c) == \A t \in 1..Len(c.tasks) : c.tasks[t].status = Pending

NothingInvoked == \A t \in DOMAIN invoked : invoked[t].calls = 0

(* The last operation was an entry point and it has returned a Result. *)
Returned(op) == last.op = op /\ pc = "idle" /\ ret.tag \in {"Ok", "Err"}

(* The last operation ran the strategy `strategy` to its return. *)
RanSequential ==
    /\ pre.process = "sequential"
    /\ Returned("execute") \/ Returned("execute_async")
    /\ ~FailsValidation(pre)

RanParallel ==
    /\ pre.process = "parallel"
    /\ Returned("execute") \/ Returned("execute_async")
    /\ ~FailsValidation(pre)

RanConcurrent ==
    /\ pre.process = "async"
    /\ Returned("execute_async")
    /\ ~FailsValidation(pre)

OpOk(t) == invoked[t].outcome.kind = "ok"
OpErr(t) == invoked[t].outcome.kind = "err"
OpPanicked(t) == invoked[t].outcome.kind = "panic"

----------------------------------------------------------------------------
(* C1: execute on a Crew that fails validation returns an error at once,   *)
(* invokes no task operation and leaves the Crew, every task status        *)
(* included, as it was.                                                    *)
C1_InvalidCrewIsRejectedUntouched ==
    (last.op = "execute" /\ FailsValidation(pre)) =>
        /\ pc = "idle"
        /\ ret.tag = "Err"
        /\ NothingInvoked
        /\ crew = pre

C1_Witness ==
    /\ last.op = "execute"
    /\ pre.process = "sequential"
    /\ pre.agents # <<>>
    /\ Len(pre.tasks) >= 2
    /\ pre.tasks[1].agent_name = Some("a")
    /\ pre.tasks[2].agent_name = Some("b")
    /\ ret.tag = "Err"

(* C2: the sequential strategy is fail-fast.  When the run of a valid,     *)
(* all-Pending Crew has returned and task k is the first whose operation   *)
(* returned an error, the tasks before k are Completed, k is Failed with   *)
(* that reason, the tasks after k are Pending and were never attempted,    *)
(* and the error is an ExecutionError with k's id and reason and nothing   *)
(* of any other task.                                                      *)
C2_SequentialFailFast ==
    (RanSequential /\ AllPending(pre)) =>
        \A k \in 1..Len(crew.tasks) :
            (OpErr(k) /\ \A j \in 1..(k - 1) : OpOk(j)) =>
                /\ \A j \in 1..(k - 1) : crew.tasks[j].status = Completed
                /\ crew.tasks[k].status.tag = "Failed"
                /\ crew.tasks[k].status.msg.id = crew.tasks[k].id
                /\ crew.tasks[k].status.msg.e = invoked[k].outcome.e
                /\ \A j \in (k + 1)..Len(crew.tasks) :
                      crew.tasks[j].status = Pending /\ invoked[j].calls = 0
                /\ ret.tag = "Err"
                /\ ret.kind = "ExecutionError"
                /\ DOMAIN ret.msg = {"fmt", "id", "e"}
                /\ ret.msg.id = crew.tasks[k].id
                /\ ret.msg.e = invoked[k].outcome.e

C2_Witness ==
    /\ RanSequential
    /\ AllPending(pre)
    /\ Len(crew.tasks) = 3
    /\ OpOk(1)
    /\ OpErr(2)
    /\ crew.tasks[3].status = Pending

(* C3: the parallel and concurrent strategies are not fail-fast: when the  *)
(* run of a valid Crew has returned, every task whose operation succeeded  *)
(* is Completed and every task whose operation failed is Failed, and the   *)
(* returned error holds exactly the reasons of the failing tasks.          *)
C3_FanOutStatusesAndReasons ==
    (RanParallel \/ RanConcurrent) =>
        /\ \A t \in 1..Len(crew.tasks) :
              /\ OpOk(t) => crew.tasks[t].status = Completed
              /\ OpErr(t) => /\ crew.tasks[t].status.tag = "Failed"
                             /\ crew.tasks[t].status.msg.e = invoked[t].outcome.e
        /\ (\E t \in 1..Len(crew.tasks) : OpErr(t)) =>
              /\ ret.tag = "Err"
              /\ {ret.msg.joined[j].e : j \in 1..Len(ret.msg.joined)}
                    = {invoked[t].outcome.e : t \in {u \in 1..Len(crew.tasks) : OpErr(u)}}

(* C4: when every task operation of a valid Crew succeeds, each strategy   *)
(* returns success and leaves every task Completed.                        *)
C4_AllSuccessAllCompleted ==
    ((RanSequential \/ RanParallel \/ RanConcurrent)
        /\ \A t \in 1..Len(crew.tasks) : OpOk(t)) =>
        /\ ret.tag = "Ok"
        /\ \A t \in 1..Len(crew.tasks) : crew.tasks[t].status = Completed

(* C5: a Crew whose process is "async" is refused by execute with an       *)
(* InvalidConfig error, no task operation invoked and every status as it   *)
(* was; execute_async on such a (valid) Crew runs the Tokio strategy, and  *)
(* when it returns every task operation has been invoked once.             *)
C5_AsyncDispatch ==
    /\ (last.op = "execute" /\ pre.process = "async") =>
          /\ pc = "idle"
          /\ ret.tag = "Err"
          /\ ret.kind = "InvalidConfig"
          /\ NothingInvoked
          /\ crew = pre
    /\ (last.op = "execute_async" /\ pre.process = "async" /\ ~FailsValidation(pre)) =>
          /\ pc \in {"tokio", "idle"}
          /\ pc = "idle" => \A t \in 1..Len(crew.tasks) : invoked[t].calls = 1

C5_Witness ==
    /\ RanConcurrent
    /\ Len(crew.tasks) >= 2
    /\ \A t \in 1..Len(crew.tasks) : invoked[t].calls = 1

(* C6: Completed and Failed are terminal: no step changes the status of a  *)
(* task of the Crew that is Completed or Failed.                           *)
C6_TerminalStatusesStay ==
    [][\A t \in 1..Len(crew.tasks) :
          (crew.tasks[t].status.tag \in {"Completed", "Failed"} /\ t <= Len(crew'.tasks)
              /\ crew'.name = crew.name /\ last'.op # "Crew::new")
            => crew'.tasks[t].status = crew.tasks[t].status]_vars

(* C7: validate succeeds exactly when the Crew has an agent, has a task,   *)
(* and every task with an agent_name names (by exact match) one of the     *)
(* Crew's agents; a task without an agent_name never makes it fail.        *)
C7_ValidateIffWellFormed ==
    last.op = "validate" =>
        (ret.tag = "Ok" <=>
            /\ Len(crew.agents) >= 1
            /\ Len(crew.tasks) >= 1
            /\ \A t \in 1..Len(crew.tasks) :
                  crew.tasks[t].agent_name.some =>
                      \E a \in 1..Len(crew.agents) :
                          crew.agents[a].name = crew.tasks[t].agent_name.val)

C7_Witness ==
    /\ last.op = "validate"
    /\ ret.tag = "Ok"
    /\ Len(crew.agents) = 2
    /\ crew.agents[1].name # crew.agents[2].name
    /\ Len(crew.tasks) = 2
    /\ crew.tasks[1].agent_name = None
    /\ crew.tasks[2].agent_name = Some(crew.agents[2].name)

(* C8: the parallel and concurrent strategies return success exactly when  *)
(* no task operation failed or panicked; otherwise they return one         *)
(* ExecutionError whose joined message has, in list order, one entry per   *)
(* failing task with that task's id and reason, and none for the others.   *)
FailingTasks == SelectSeq([t \in 1..Len(crew.tasks) |-> t], LAMBDA t : ~OpOk(t))

C8_AggregatedErrorNamesEachFailure ==
    (/\ \/ (pre.process = "parallel" /\ last.op \in {"execute", "execute_async"})
        \/ (pre.process = "async" /\ last.op = "execute_async")
     /\ ~FailsValidation(pre)
     /\ pc = "idle") =>
        IF FailingTasks = <<>> THEN ret.tag = "Ok"
        ELSE /\ ret.tag = "Err"
             /\ ret.kind = "ExecutionError"
             /\ Len(ret.msg.joined) = Len(FailingTasks)
             /\ \A j \in 1..Len(FailingTasks) :
                   /\ "id" \in DOMAIN ret.msg.joined[j]
                   /\ ret.msg.joined[j].id = crew.tasks[FailingTasks[j]].id
                   /\ OpErr(FailingTasks[j]) =>
                         ret.msg.joined[j].e = invoked[FailingTasks[j]].outcome.e

C10_ConstructorsAllOrNothing ==
    /\ last.op = "Agent::new" =>
          IF last.name = "" \/ last.role = ""
          THEN ret.tag = "Err" /\ ret.kind = "MissingField" /\ "val" \notin DOMAIN ret
          ELSE ret = Ok([name |-> last.name, role |-> last.role, expertise |-> last.expertise])
    /\ last.op = "Task::new" =>
          IF last.description = "" \/ last.expected_output = ""
          THEN ret.tag = "Err" /\ ret.kind = "MissingField" /\ "val" \notin DOMAIN ret
          ELSE ret = Ok([id |-> last.id, description |-> last.description,
                         expected_output |-> last.expected_output,
                         agent_name |-> last.agent_name, status |-> Pending])
    /\ last.op = "Crew::new" =>
          IF last.name = ""
          THEN ret.tag = "Err" /\ ret.kind = "MissingField" /\ "val" \notin DOMAIN ret
          ELSE IF last.process \notin {"sequential", "parallel", "async"}
          THEN ret.tag = "Err" /\ ret.kind = "InvalidConfig" /\ "val" \notin DOMAIN ret
          ELSE /\ ret = Ok([name |-> last.name, agents |-> <<>>, tasks |-> <<>>,
                            process |-> last.process])
               /\ crew = ret.val

C10_Witness ==
    /\ last.op = "Task::new"
    /\ last.description # ""
    /\ last.expected_output = ""
    /\ ret.tag = "Err"

(* C11: every Crew that load_crew_from_yaml returns, and every document   *)
(* that validate_yaml_string accepts, has a process of the closed set.     *)
C11_LoadedProcessIsInClosedSet ==
    (last.op \in {"load_crew_from_yaml", "validate_yaml_string"} /\ ret.tag = "Ok") =>
        last.file.val.process.val \in {"sequential", "parallel", "async"}

(* C12: in the Tokio strategy a panic of one activity is caught: the task  *)
(* of that activity ends Failed, in the strategy's status vec once the     *)
(* activity has ended and in the Crew once execute_async has returned; the *)
(* call returns an ExecutionError with a "Task panicked" entry and does    *)
(* not unwind; every other task operation has been invoked.                *)
C12_TokioPanicIsCaughtAsFailed ==
    (last.op = "execute_async" /\ pre.process = "async" /\ ~FailsValidation(pre)) =>
        \A k \in DOMAIN invoked :
            OpPanicked(k) =>
                /\ (pc = "tokio" /\ apc[k] = "done") => task_statuses[k].tag = "Failed"
                /\ pc = "idle" =>
                      /\ ret.tag = "Err"
                      /\ ret.kind = "ExecutionError"
                      /\ \E j \in 1..Len(ret.msg.joined) : ret.msg.joined[j] = TaskPanickedMsg
                      /\ \A t \in DOMAIN invoked : invoked[t].calls = 1
                      /\ crew.tasks[k].status.tag = "Failed"

(* C13: in the rayon strategy no worker holds the lock of a task's status  *)
(* while that task's operation (Task::execute) is running.                 *)
C13_RayonLockNotHeldAcrossExecute ==
    pc = "rayon" =>
        \A k \in DOMAIN wpc : wpc[k] = "executing" => mutex[k].holder = 0

(* C14: status writes never race.  In the rayon and Tokio strategies a     *)
(* step that writes a task status is taken by the worker or activity that  *)
(* holds the Mutex guarding that status (held before the step, or acquired *)
(* free in it), and a Mutex passes to a new holder only when it is free,   *)
(* so it never has two holders.                                            *)
C14_StatusWritesUnderLock ==
    [][/\ (pc = "rayon" /\ pc' = "rayon") =>
             \A k \in DOMAIN tasks_with_status :
                 tasks_with_status'[k].task.status # tasks_with_status[k].task.status =>
                     \/ mutex[k].holder = k
                     \/ mutex[k].holder = 0 /\ mutex'[k].holder = k
       /\ (pc = "tokio" /\ pc' = "tokio") =>
             \A k \in DOMAIN task_statuses :
                 task_statuses'[k] # task_statuses[k] => mutex[1].holder = k
       /\ (pc \in {"rayon", "tokio"} /\ pc' = pc) =>
             \A m \in DOMAIN mutex :
                 mutex'[m].holder \notin {0, mutex[m].holder} => mutex[m].holder = 0]_vars

C14_Witness ==
    /\ pc = "tokio"
    /\ Len(apc) >= 2
    /\ apc[1] = "lock_final"
    /\ mutex[1].holder = 1
    /\ apc[2] = "ready"
    /\ task_statuses[1] = Running
    /\ task_statuses[2] = Pending

(* C15: each task follows Pending -> Running -> {Completed | Failed}.  A   *)
(* step of a strategy changes a status (of the Crew's task in the          *)
(* sequential strategy, of its clone in rayon, of its entry of the status  *)
(* vec in Tokio) only from Pending to Running or from Running to Completed *)
(* or Failed, and a task operation is invoked only on a task that is       *)
(* Running.                                                                *)
StatusStep(s, t) ==
    \/ t = s
    \/ s = Pending /\ t = Running
    \/ s = Running /\ t.tag \in {"Completed", "Failed"}

C15_StatusProgression ==
    [][/\ pc \in {"seq_loop", "seq_exec"} =>
             /\ \A t \in 1..Len(crew.tasks) :
                   StatusStep(crew.tasks[t].status, crew'.tasks[t].status)
             /\ \A t \in 1..Len(crew.tasks) :
                   invoked'[t].calls > invoked[t].calls => crew'.tasks[t].status = Running
       /\ (pc = "rayon" /\ pc' = "rayon") =>
             /\ \A k \in DOMAIN tasks_with_status :
                   StatusStep(tasks_with_status[k].task.status, tasks_with_status'[k].task.status)
             /\ \A k \in DOMAIN tasks_with_status :
                   invoked'[k].calls > invoked[k].calls =>
                       tasks_with_status'[k].task.status = Running
       /\ (pc = "tokio" /\ pc' = "tokio") =>
             /\ \A k \in DOMAIN task_statuses :
                   StatusStep(task_statuses[k], task_statuses'[k])
             /\ \A k \in DOMAIN task_statuses :
                   invoked'[k].calls > invoked[k].calls => task_statuses'[k] = Running]_vars

(* C16: the entry points validate before dispatching: execute and          *)
(* execute_async on a Crew that fails validation return the error of       *)
(* validate, whatever the process, and start no strategy.                  *)
C16_ValidateBeforeDispatch ==
    (last.op \in {"execute", "execute_async"} /\ FailsValidation(pre)) =>
        /\ pc = "idle"
        /\ ret = CrewValidate(pre)
        /\ NothingInvoked

(* C17: the joined error of the rayon and Tokio strategies is in task-list *)
(* order: when such a run returns an error, its j-th entry is the message  *)
(* of the j-th task of the list whose operation did not succeed ("Task id  *)
(* failed: reason" for an error, "Task panicked" for a panic), whatever    *)
(* the order the tasks started, finished or took locks in.                 *)
C17_JoinedErrorsInListOrder ==
    (/\ \/ (pre.process = "parallel" /\ last.op \in {"execute", "execute_async"})
        \/ (pre.process = "async" /\ last.op = "execute_async")
     /\ ~FailsValidation(pre)
     /\ pc = "idle"
     /\ ret.tag = "Err") =>
        /\ Len(ret.msg.joined) = Len(FailingTasks)
        /\ \A j \in 1..Len(FailingTasks) :
              ret.msg.joined[j] =
                  IF OpErr(FailingTasks[j])
                  THEN TaskFailedMsg(crew.tasks[FailingTasks[j]].id,
                                     invoked[FailingTasks[j]].outcome.e)
                  ELSE TaskPanickedMsg

C17_Witness ==
    /\ RanConcurrent
    /\ Len(crew.tasks) = 3
    /\ OpErr(1)
    /\ OpPanicked(2)
    /\ OpErr(3)
    /\ ret.tag = "Err"
    /\ Len(ret.msg.joined) = 3

(* C18: no retry, full fan-out, no rollback.  Within one call of execute   *)
(* or execute_async the operation of a task is invoked at most once; when  *)
(* the rayon or the Tokio strategy returns it has been invoked exactly     *)
(* once for every task of the list, whatever the siblings did; and a       *)
(* status the call has written (to the Crew's task, to its rayon clone or  *)
(* to its entry of the Tokio status vec) is afterwards only moved forward, *)
(* from Running to Completed or Failed, never back.                        *)
C18_NoRetryFullFanOutNoRollback ==
    [][/\ \A t \in DOMAIN invoked' : invoked'[t].calls <= 1
       /\ (pc \in {"rayon", "tokio"} /\ pc' = "idle") =>
             /\ DOMAIN invoked' = 1..Len(crew'.tasks)
             /\ \A t \in DOMAIN invoked' : invoked'[t].calls = 1
       /\ pc \in {"seq_loop", "seq_exec"} =>
             \A t \in 1..Len(crew.tasks) :
                 invoked[t].calls >= 1 =>
                     \/ crew'.tasks[t].status = crew.tasks[t].status
                     \/ /\ crew.tasks[t].status = Running
                        /\ crew'.tasks[t].status.tag \in {"Completed", "Failed"}
       /\ (pc = "rayon" /\ pc' = "rayon") =>
             \A k \in DOMAIN tasks_with_status :
                 invoked[k].calls >= 1 =>
                     \/ tasks_with_status'[k].task.status = tasks_with_status[k].task.status
                     \/ /\ tasks_with_status[k].task.status = Running
                        /\ tasks_with_status'[k].task.status.tag \in {"Completed", "Failed"}
       /\ (pc = "tokio" /\ pc' = "tokio") =>
             \A k \in DOMAIN task_statuses :
                 invoked[k].calls >= 1 =>
                     \/ task_statuses'[k] = task_statuses[k]
                     \/ /\ task_statuses[k] = Running
                        /\ task_statuses'[k].tag \in {"Completed", "Failed"}]_vars

C18_Witness ==
    /\ RanParallel
    /\ Len(crew.tasks) = 3
    /\ OpErr(1)
    /\ OpOk(2)
    /\ OpOk(3)
    /\ \A t \in 1..3 : invoked[t].calls = 1

(* C19: the Tokio strategy is a true fan-out.  The activities launched are *)
(* those of the first tasks of the list, one each; the await of the engine *)
(* resolves only after an activity has been launched for every task and    *)
(* each has run its task operation to its end; and an activity only moves  *)
(* forward through its steps, whatever happens to a sibling: none is       *)
(* cancelled.                                                              *)
C19_TokioTrueFanOut ==
    [][/\ pc' = "tokio" =>
             /\ spawned' <= Len(crew'.tasks)
             /\ \A k \in DOMAIN apc' : apc'[k] # "unspawned" <=> k <= spawned'
       /\ (pc = "tokio" /\ pc' = "idle") =>
             /\ spawned = Len(crew.tasks)
             /\ \A k \in 1..Len(crew.tasks) :
                   /\ apc[k] = "done"
                   /\ invoked[k].calls = 1
                   /\ invoked[k].outcome.kind # "none"
                   /\ results[k] # NoRet
       /\ (pc = "tokio" /\ pc' = "tokio") =>
             \A k \in DOMAIN apc :
                 \/ apc'[k] = apc[k]
                 \/ <<apc[k], apc'[k]>> \in
                       {<<"unspawned", "ready">>, <<"ready", "lock_running">>,
                        <<"lock_running", "executing">>, <<"executing", "lock_final">>,
                        <<"executing", "done">>, <<"lock_final", "done">>}]_vars

C19_Witness ==
    /\ RanConcurrent
    /\ Len(crew.tasks) = 3
    /\ OpPanicked(1)
    /\ OpErr(2)
    /\ OpOk(3)
    /\ \A t \in 1..3 : invoked[t].calls = 1

(* The thread that runs activity k at its position.  The async block given *)
(* to task::spawn is polled by a worker thread of the runtime, that is by  *)
(* the scheduler; the block holds no spawn_blocking or block_in_place, so  *)
(* its lock blocks and its call of task.execute() run on that worker.      *)
PolledBy(k) ==
    IF apc[k] \in {"lock_running", "executing", "lock_final"}
    THEN "runtime_worker"
    ELSE "none"

(* C20: in the Tokio strategy no activity runs Task::execute on a          *)
(* scheduler thread: while a task operation is running, the thread         *)
(* running it is not a worker of the runtime.                              *)
C20_ExecuteOffTheSchedulerThread ==
    pc = "tokio" =>
        \A k \in DOMAIN apc : apc[k] = "executing" => PolledBy(k) # "runtime_worker"

(* C21: the sequential strategy runs the tasks in list order, one at a     *)
(* time.  While the operation of task i is running, every earlier task is  *)
(* Completed and has been invoked, task i is Running and every later task  *)
(* is Pending and has not been invoked; and at every moment of a           *)
(* sequential run at most one task is Running, with every task after it    *)
(* Pending.                                                                *)
C21_SequentialListOrder ==
    (pre.process = "sequential" /\ last.op \in {"execute", "execute_async"}) =>
        /\ pc = "seq_exec" =>
              /\ \A j \in 1..(i - 1) :
                    crew.tasks[j].status = Completed /\ invoked[j].calls = 1
              /\ crew.tasks[i].status = Running
              /\ \A j \in (i + 1)..Len(crew.tasks) :
                    crew.tasks[j].status = Pending /\ invoked[j].calls = 0
        /\ \A t \in 1..Len(crew.tasks) :
              crew.tasks[t].status = Running =>
                  \A j \in (t + 1)..Len(crew.tasks) : crew.tasks[j].status = Pending

(* C22: validate reports the first violation in a fixed order: no agents   *)
(* before no tasks, no tasks before a dangling agent_name, and of the      *)
(* dangling agent_names that of the first offending task of the list.      *)
C22_ValidateFirstViolation ==
    last.op = "validate" =>
        IF crew.agents = <<>>
        THEN ret = Err("InvalidConfig", [fmt |-> "Crew must have at least one agent"])
        ELSE IF crew.tasks = <<>>
        THEN ret = Err("InvalidConfig", [fmt |-> "Crew must have at least one task"])
        ELSE \A t \in 1..Len(crew.tasks) :
                (/\ crew.tasks[t].agent_name.some
                 /\ \A a \in 1..Len(crew.agents) :
                       crew.agents[a].name # crew.tasks[t].agent_name.val
                 /\ \A u \in 1..(t - 1) :
                       crew.tasks[u].agent_name.some =>
                           \E a \in 1..Len(crew.agents) :
                               crew.agents[a].name = crew.tasks[u].agent_name.val)
                => /\ ret.tag = "Err"
                   /\ ret.kind = "InvalidConfig"
                   /\ "agent" \in DOMAIN ret.msg
                   /\ ret.msg.agent = crew.tasks[t].agent_name.val

C22_Witness ==
    /\ last.op = "validate"
    /\ Len(crew.agents) = 1
    /\ Len(crew.tasks) = 2
    /\ crew.tasks[1].agent_name = Some("c")
    /\ crew.tasks[2].agent_name = Some("b")
    /\ crew.agents[1].name = "a"
    /\ ret.tag = "Err"
    /\ ret.msg.agent = "c"

(* C23: defensive dispatch.  On a Crew whose process is outside            *)
(* {"sequential", "parallel", "async"} (one that was deserialized), both   *)
(* execute and execute_async return an InvalidConfig error at once, invoke *)
(* no task operation and leave the Crew, every task status included, as it *)
(* was.                                                                    *)
C23_UnknownProcessIsRefused ==
    (last.op \in {"execute", "execute_async"} /\ pre.process \notin Processes) =>
        /\ pc = "idle"
        /\ ret.tag = "Err"
        /\ ret.kind = "InvalidConfig"
        /\ NothingInvoked
        /\ crew = pre

C23_Witness ==
    /\ last.op = "execute_async"
    /\ pre.process = "invalid"
    /\ ~FailsValidation(pre)
    /\ ret.tag = "Err"
    /\ ret.kind = "InvalidConfig"
    /\ AllPending(crew)

(* What execute_sequential and execute_parallel_rayon give back, as a      *)
(* function of the Crew c at the call and of the outcomes o of the task    *)
(* operations alone: the value returned and the Crew left behind.          *)
OkUpTo(o, t) == \A j \in 1..t : o[j].outcome.kind = "ok"

SyncReturn(c, o) ==
    IF CrewValidate(c).tag = "Err" THEN CrewValidate(c)
    ELSE IF \E t \in 1..Len(c.tasks) :
               /\ o[t].outcome.kind = "panic"
               /\ (c.process = "parallel" \/ OkUpTo(o, t - 1))
    THEN Unwinding
    ELSE IF OkUpTo(o, Len(c.tasks)) THEN Ok(Unit)
    ELSE IF c.process = "sequential"
    THEN LET f == CHOOSE t \in 1..Len(c.tasks) : OkUpTo(o, t - 1) /\ o[t].outcome.kind = "err"
         IN  Err("ExecutionError", SeqErrorMsg(c.tasks[f].id, o[f].outcome.e))
    ELSE LET failing == SelectSeq([t \in 1..Len(c.tasks) |-> t],
                                  LAMBDA t : o[t].outcome.kind = "err")
         IN  Err("ExecutionError",
                 RayonErrorMsg([j \in 1..Len(failing) |->
                     TaskFailedMsg(c.tasks[failing[j]].id, o[failing[j]].outcome.e)]))

SyncCrew(c, o) ==
    IF CrewValidate(c).tag = "Err" \/ c.process = "parallel" THEN c
    ELSE [c EXCEPT !.tasks = [t \in 1..Len(c.tasks) |->
            [c.tasks[t] EXCEPT !.status =
                IF OkUpTo(o, t) THEN Completed
                ELSE IF OkUpTo(o, t - 1) /\ o[t].outcome.kind = "err"
                THEN Failed(TaskFailedMsg(c.tasks[t].id, o[t].outcome.e))
                ELSE IF OkUpTo(o, t - 1) /\ o[t].outcome.kind = "panic"
                THEN Running
                ELSE @]]]

(* C24: entry-point equivalence.  For a Crew whose process is "sequential" *)
(* or "parallel", what a call returns and the Crew it leaves are the same  *)
(* function of the Crew at the call and of the task-operation outcomes     *)
(* whether the call is execute or execute_async: with the same Crew and    *)
(* the same outcomes the two give the same result and the same statuses.   *)
C24_EntryPointEquivalence ==
    (/\ last.op \in {"execute", "execute_async"}
     /\ pre.process \in {"sequential", "parallel"}
     /\ pc = "idle") =>
        /\ ret = SyncReturn(pre, invoked)
        /\ crew = SyncCrew(pre, invoked)

C24_Witness ==
    /\ last.op = "execute_async"
    /\ pre.process = "parallel"
    /\ pc = "idle"
    /\ Len(crew.tasks) = 3
    /\ OpErr(1)
    /\ OpOk(2)
    /\ OpErr(3)
    /\ ret.tag = "Err"

(* C25: termination without deadlock.  When the threads and activities of  *)
(* a strategy are scheduled fairly and every task operation ends, a call   *)
(* of execute or execute_async that has started a strategy returns (or     *)
(* unwinds with the panic of a task operation): no interleaving of the     *)
(* workers or activities and their locks leaves the call waiting forever.  *)
C25_EveryCallReturns == (pc # "idle") ~> (pc = "idle")

C25_Witness ==
    /\ pc = "tokio"
    /\ Len(apc) = 3
    /\ apc[1] = "executing"
    /\ apc[2] = "lock_final"
    /\ mutex[1].holder = 2
    /\ apc[3] = "ready"

(* A Crew without the statuses of its tasks. *)
Frame(c) ==
    [name |-> c.name, process |-> c.process, agents |-> c.agents,
     tasks |-> [t \in 1..Len(c.tasks) |->
                   [id |-> c.tasks[t].id, description |-> c.tasks[t].description,
                    expected_output |-> c.tasks[t].expected_output,
                    agent_name |-> c.tasks[t].agent_name]]]

(* C26: frame of execution.  From the call of execute or execute_async to  *)
(* its return, successful or failing, the Crew keeps its name, process and *)
(* agents and the number, order, id, description, expected_output and      *)
(* agent_name of its tasks: only task statuses are changed.                *)
C26_ExecutionFrame ==
    last.op \in {"execute", "execute_async"} => Frame(crew) = Frame(pre)

C26_Witness ==
    /\ last.op = "execute"
    /\ pc = "idle"
    /\ ret.tag = "Err"
    /\ Len(crew.tasks) = 3
    /\ crew # pre
    /\ crew.tasks[1].agent_name = None
    /\ crew.tasks[1].status = Completed
    /\ crew.tasks[2].status.tag = "Failed"

====
